---- MODULE Spec2Model ----
(***************************************************************************)
(* Model of the starred-repository content indexer                         *)
(* (src/visualize_github_star/enhanced_github_indexer.py, manage.py).      *)
(*                                                                         *)
(* Text values are sequences of one-character strings.  The SQLite store   *)
(* is modelled by what the statements of the source do to it: repo_index   *)
(* is a set of rows, each with the implicit rowid of a rowid table, and    *)
(* repo_fts (an external-content FTS5 table) is the set of documents held  *)
(* by its inverted index.  The display-only columns language, html_url,    *)
(* owner_login and owner_avatar are copied through by the code and take    *)
(* part in no decision; they are left out of the rows.                     *)
(***************************************************************************)
EXTENDS Integers, Sequences, FiniteSets, TLC

VARIABLES
    rows,       \* repo_index as seen by the indexer's connection
    fts,        \* repo_fts index documents as seen by the indexer's connection
    dbRows,     \* repo_index as committed to repo_index.db
    dbFts,      \* repo_fts index documents as committed to repo_index.db
    cache,      \* cache/<full_name>_readme.txt : [exists, mtime, text]
    now,        \* wall clock
    pc,         \* "idle" | "running" : position of build_index
    run,        \* bookkeeping of the current / last build_index call
    upserted,   \* full_names handed to save_to_database since the last clean-up
    op,         \* the operation performed by the last step and its outcome
    resp        \* /api/search: the request being served and its outcome

vars == <<rows, fts, dbRows, dbFts, cache, now, pc, run, upserted, op, resp>>

----------------------------------------------------------------------------
(* Bounds *)

MaxRowid == 3       \* rows written during the lifetime of one database file
MaxTime == 1        \* clock values and upstream timestamps range over 0..MaxTime
MaxItems == 2       \* records handled by one build_index call

----------------------------------------------------------------------------
(* Value domains *)

FullNames == { <<"o", "/", "a">>, <<"o", "/", "b">> }

\* The record whose content is varied; the other records keep one content.
PrimaryName == <<"o", "/", "a">>

\* GitHub's full_name is "<owner>/<name>": the name is its last component.
NameOf(fn) == SubSeq(fn, Len(fn), Len(fn))

Descriptions == { <<"a">>, <<"a", "b">> }
Readmes == { <<>>, <<"b">> }
StarValues == { 0, 7 }
TopicLists == { <<>> }
Times == 0..MaxTime
UpdatedAts == { 0, 1 }

AlNum ==
    { "a", "b", "c", "d", "e", "f", "g", "h", "i", "j", "k", "l", "m", "n",
      "o", "p", "q", "r", "s", "t", "u", "v", "w", "x", "y", "z",
      "0", "1", "2", "3", "4", "5", "6", "7", "8", "9" }

Max(S) == CHOOSE x \in S : \A y \in S : y <= x

----------------------------------------------------------------------------
(* Text helpers *)

\* str.lower on the letters that occur in upper case in the requests and in
\* the indexed records.
Lower(c) ==
    CASE c = "T" -> "t" [] c = "J" -> "j" [] c = "S" -> "s" [] c = "O" -> "o"
      [] c = "N" -> "n" [] OTHER -> c

LowerStr(s) == [i \in 1..Len(s) |-> Lower(s[i])]

\* str(updated_at): an ISO-8601 timestamp has a fixed width, rendered here
\* as one symbol per instant.
IsoStr(t) == << ToString(t) >>

RECURSIVE JoinQuoted(_)
JoinQuoted(ts) ==
    IF ts = <<>> THEN <<>>
    ELSE <<"\"">> \o Head(ts) \o <<"\"">> \o
         (IF Tail(ts) = <<>> THEN <<>> ELSE <<",", " ">> \o JoinQuoted(Tail(ts)))

\* json.dumps(list of strings)
json_dumps(ts) == <<"[">> \o JoinQuoted(ts) \o <<"]">>

\* The positions at which a maximal run of characters of `chars` starts in
\* s, and the position at which the run starting at i ends.
RunStarts(s, chars) ==
    { i \in 1..Len(s) : s[i] \in chars /\ (i = 1 \/ s[i - 1] \notin chars) }

RunEnd(s, chars, i) ==
    CHOOSE j \in i..Len(s) :
        /\ j = Len(s) \/ s[j + 1] \notin chars
        /\ \A k \in i..j : s[k] \in chars

\* FTS5 default (unicode61) tokenizer: maximal runs of alphanumerics, folded
\* to lower case.
fts5_tokens(s) ==
    { SubSeq(LowerStr(s), i, RunEnd(LowerStr(s), AlNum, i)) :
        i \in RunStarts(LowerStr(s), AlNum) }

----------------------------------------------------------------------------
(* Content store: repo_index, repo_fts and the repo_ai trigger *)

\* Tokens of the five indexed columns of a row.
ColumnTokens(r) ==
    fts5_tokens(r.full_name) \cup fts5_tokens(r.name) \cup
    fts5_tokens(r.description) \cup fts5_tokens(r.readme_content) \cup
    fts5_tokens(r.topics)

\* The entry the repo_ai trigger adds to the index of repo_fts for a row: the
\* row's tokens filed under its rowid (repo_fts is an external-content table,
\* the index keeps the tokens and the column values stay in repo_index).
FtsDoc(r) ==
    [rowid |-> r.rowid, full_name |-> r.full_name, tokens |-> ColumnTokens(r)]

DocTokens(d) == d.tokens

\* CREATE TRIGGER repo_ai AFTER INSERT: index the new row under new.rowid.
repo_ai(ix, new) == ix \cup { FtsDoc(new) }

\* hashlib.md5 over description + readme_content + updated_at.  The digest is
\* represented by the digested string (MD5 taken as collision free).
get_content_hash(rc) ==
    rc.description \o rc.readme_content \o IsoStr(rc.updated_at)

\* SELECT ... FROM repo_index WHERE full_name = ?
SelectByFullName(rs, fn) == { r \in rs : r.full_name = fn }

\* Rowid SQLite gives a row inserted into a rowid table without an explicit
\* rowid: one more than the largest rowid in the table.  For INSERT OR
\* REPLACE it is chosen before the conflicting row is removed.
NewRowid(rs) == IF rs = {} THEN 1 ELSE Max({ r.rowid : r \in rs }) + 1

RowOf(rc, rid) ==
    [rowid |-> rid, full_name |-> rc.full_name, name |-> rc.name,
     description |-> rc.description, stars |-> rc.stars,
     updated_at |-> rc.updated_at, archived |-> rc.archived,
     readme_content |-> rc.readme_content, topics |-> json_dumps(rc.topics),
     last_indexed |-> rc.last_indexed, content_hash |-> get_content_hash(rc)]

\* Variant: the conflicting row is overwritten in place (its rowid is kept),
\* still without any delete on the index.
insert_or_replace_in_place(rs, ix, rc) ==
    LET old == SelectByFullName(rs, rc.full_name)
        rid == IF old = {} THEN NewRowid(rs) ELSE (CHOOSE r \in old : TRUE).rowid
        new == RowOf(rc, rid)
    IN  [rows |-> (rs \ old) \cup {new}, fts |-> repo_ai(ix, new)]

\* Variant: a plain INSERT into a table without the PRIMARY KEY constraint.
insert_no_conflict(rs, ix, rc) ==
    LET new == RowOf(rc, NewRowid(rs))
    IN  [rows |-> rs \cup {new}, fts |-> repo_ai(ix, new)]

\* INSERT OR REPLACE INTO repo_index: the PRIMARY KEY conflict on full_name is
\* resolved by removing the conflicting row, then the new row is inserted and
\* repo_ai fires.  Rows removed by REPLACE fire no delete trigger
\* (recursive_triggers is off by default), so repo_ad / repo_au never run.
insert_or_replace(rs, ix, rc) ==
    LET new == RowOf(rc, NewRowid(rs))
    IN  [rows |-> (rs \ SelectByFullName(rs, rc.full_name)) \cup {new},
         fts |-> repo_ai(ix, new)]

\* Variant: with an unchanged fingerprint the volatile columns of the stored
\* row are refreshed in place.
save_to_database_refresh(rs, ix, rc) ==
    LET stored == SelectByFullName(rs, rc.full_name)
    IN  IF \E r \in stored : r.content_hash = get_content_hash(rc)
        THEN [rows |-> (rs \ stored) \cup
                       { [r EXCEPT !.stars = rc.stars,
                                   !.last_indexed = rc.last_indexed] : r \in stored },
              fts |-> ix, result |-> "Skipped"]
        ELSE LET w == insert_or_replace(rs, ix, rc)
             IN  [rows |-> w.rows, fts |-> w.fts, result |-> "Written"]

\* Variant: the stored fingerprint is not consulted.
save_to_database_always(rs, ix, rc) ==
    LET w == insert_or_replace(rs, ix, rc)
    IN  [rows |-> w.rows, fts |-> w.fts, result |-> "Written"]

\* ContentIndexer.save_to_database
save_to_database(rs, ix, rc) ==
    LET stored == SelectByFullName(rs, rc.full_name)
    IN  IF \E r \in stored : r.content_hash = get_content_hash(rc)
        THEN [rows |-> rs, fts |-> ix, result |-> "Skipped"]
        ELSE LET w == insert_or_replace(rs, ix, rc)
             IN  [rows |-> w.rows, fts |-> w.fts, result |-> "Written"]

\* The full-text query of search_repositories / AdvancedSearchEngine.search:
\*   SELECT r.* FROM repo_fts fts JOIN repo_index r ON r.rowid = fts.rowid
\*   WHERE repo_fts MATCH term
fts_match(ix, term) == { d.rowid : d \in { e \in ix : term \in DocTokens(e) } }

search_repositories(rs, ix, term) == { r \in rs : r.rowid \in fts_match(ix, term) }

----------------------------------------------------------------------------
(* Records handed to the store *)

\* RepoContent values as process_repository builds them: archived records
\* carry no README, last_indexed is the time of processing.
RepoContents(t) ==
    { [full_name |-> PrimaryName, name |-> NameOf(PrimaryName),
       description |-> d, stars |-> s, updated_at |-> u, archived |-> FALSE,
       readme_content |-> rd, topics |-> tp, last_indexed |-> t] :
         d \in Descriptions, s \in StarValues, u \in UpdatedAts,
         rd \in Readmes, tp \in TopicLists }
    \cup
    { [full_name |-> fn, name |-> NameOf(fn), description |-> <<"a">>,
       stars |-> 0, updated_at |-> 0, archived |-> TRUE,
       readme_content |-> <<>>, topics |-> <<>>, last_indexed |-> t] :
         fn \in FullNames \ {PrimaryName} }

NoRecord ==
    [full_name |-> <<>>, name |-> <<>>, description |-> <<>>, stars |-> 0,
     updated_at |-> 0, archived |-> FALSE, readme_content |-> <<>>,
     topics |-> <<>>, last_indexed |-> 0]

NoCache == [exists |-> FALSE, mtime |-> 0, text |-> <<>>]

NoRun == [status |-> "none", items |-> 0, ok |-> {}, seen |-> {}]

NoRaw ==
    [full_name |-> <<>>, description |-> <<>>, stars |-> 0, updated_at |-> 0,
     archived |-> FALSE, topics |-> <<>>, missing |-> "none"]

\* What one loop iteration of build_index did besides the store write.
NoItem ==
    [raw |-> NoRaw, cached |-> NoCache, lookup |-> "none", got |-> FALSE,
     requests |-> 0, netError |-> FALSE, fileSeen |-> FALSE,
     cleaned |-> <<>>, text |-> <<>>, readFault |-> FALSE,
     writeFault |-> FALSE]

NoOp ==
    [name |-> "none", rc |-> NoRecord, result |-> "none", item |-> NoItem]

\* No request is being served.
NoResp == [status |-> "idle"]

----------------------------------------------------------------------------
(* Store-level specification: upserts and clean-up on one open connection *)

Init ==
    /\ rows = {}
    /\ fts = {}
    /\ dbRows = {}
    /\ dbFts = {}
    /\ cache = [fn \in FullNames |-> NoCache]
    /\ now = 0
    /\ pc = "idle"
    /\ run = NoRun
    /\ upserted = {}
    /\ op = NoOp
    /\ resp = NoResp

\* save_to_database(repo_content)
Upsert ==
    /\ NewRowid(rows) <= MaxRowid
    /\ \E rc \in RepoContents(now) :
          \E w \in { save_to_database(rows, fts, rc) } :
             /\ rows' = w.rows
             /\ fts' = w.fts
             /\ upserted' = upserted \cup {rc.full_name}
             /\ op' = [name |-> "upsert", rc |-> rc, result |-> w.result,
                       item |-> NoItem]
    /\ UNCHANGED <<dbRows, dbFts, cache, now, pc, run, resp>>

\* manage.py cleanup: repo_index.db and the cache directory are removed.
cleanup ==
    /\ pc = "idle"
    /\ rows' = {}
    /\ fts' = {}
    /\ dbRows' = {}
    /\ dbFts' = {}
    /\ cache' = [fn \in FullNames |-> NoCache]
    /\ run' = NoRun
    /\ upserted' = {}
    /\ op' = [NoOp EXCEPT !.name = "cleanup"]
    /\ UNCHANGED <<now, pc, resp>>

Tick ==
    /\ now < MaxTime
    /\ now' = now + 1
    /\ UNCHANGED <<rows, fts, dbRows, dbFts, cache, pc, run, upserted, op, resp>>

NextStore == Upsert \/ cleanup \/ Tick

SpecStore == Init /\ [][NextStore]_vars

----------------------------------------------------------------------------
(* Document cache and README retrieval *)

\* readme_files of fetch_readme_content
NumCandidates == 5

RespKinds == { "file", "notfound", "error" }

\* Markdown source served by the remote side.
RemoteContents == { <<"#", " ", "b">> }

\* The character class of the last clean-up pattern (the backquote, already
\* consumed by the code-span patterns, aside).
MarkupChars == { "#", "*", "_", "[", "]", "(", ")", "{", "}" }

RECURSIVE RemoveMarkup(_)
RemoveMarkup(s) ==
    IF s = <<>> THEN <<>>
    ELSE IF Head(s) \in MarkupChars THEN RemoveMarkup(Tail(s))
         ELSE <<Head(s)>> \o RemoveMarkup(Tail(s))

RECURSIVE CollapseSpaces(_)
CollapseSpaces(s) ==
    IF Len(s) < 2 THEN s
    ELSE IF Head(s) = " " /\ Head(Tail(s)) = " " THEN CollapseSpaces(Tail(s))
         ELSE <<Head(s)>> \o CollapseSpaces(Tail(s))

Strip(s) ==
    LET a == IF s # <<>> /\ Head(s) = " " THEN Tail(s) ELSE s
    IN  IF a # <<>> /\ a[Len(a)] = " " THEN SubSeq(a, 1, Len(a) - 1) ELSE a

\* ContentIndexer._clean_markdown on texts without code spans or links:
\* markup symbols removed, whitespace runs collapsed, ends stripped.
clean_markdown(content) == Strip(CollapseSpaces(RemoveMarkup(content)))

\* The request loop over readme_files, from candidate i on.  A response that
\* is not a file with content, or a request that raises, moves on to the next
\* candidate; so does a failing cache write, which raises inside the same try.
RECURSIVE TryCandidates(_, _, _, _)
TryCandidates(i, cf, t, env) ==
    IF i > NumCandidates
    THEN [text |-> <<>>, cf |-> cf, requests |-> NumCandidates, got |-> FALSE]
    ELSE IF env.resp[i] = "file" /\ ~env.writeFault
         THEN LET cleaned == clean_markdown(env.content)
              IN  [text |-> cleaned,
                   cf |-> [exists |-> TRUE, mtime |-> t, text |-> cleaned],
                   requests |-> i, got |-> TRUE]
         ELSE TryCandidates(i + 1, cf, t, env)

\* Variant: the cache is fresh when its modification time is not older.
CacheFresh_ge(cf, updated) == cf.mtime >= updated

\* cache_modified > repo_updated
CacheFresh(cf, updated) == cf.mtime > updated

\* ContentIndexer.fetch_readme_content for a record that has a full_name.
\* lookup: "hit" the cached text is returned, "miss" the candidates are
\* requested, "error" the cache check raised (nothing catches it here).
fetch_readme_content(raw, cf, t, env) ==
    IF cf.exists /\ env.readFault
    THEN [raised |-> TRUE, lookup |-> "error", text |-> <<>>, cf |-> cf,
          requests |-> 0, got |-> FALSE]
    ELSE IF cf.exists /\ CacheFresh(cf, raw.updated_at)
    THEN [raised |-> FALSE, lookup |-> "hit", text |-> cf.text, cf |-> cf,
          requests |-> 0, got |-> FALSE]
    ELSE LET f == TryCandidates(1, cf, t, env)
         IN  [raised |-> FALSE, lookup |-> "miss", text |-> f.text,
              cf |-> f.cf, requests |-> f.requests, got |-> f.got]

NoFetch ==
    [raised |-> FALSE, lookup |-> "none", text |-> <<>>, cf |-> NoCache,
     requests |-> 0, got |-> FALSE]

\* Variant: the README is retrieved for archived records too.
process_repository_fetch_archived(raw, cf, t, env) ==
    LET f == IF raw.missing = "full_name"
             THEN [NoFetch EXCEPT !.cf = cf, !.raised = TRUE]
             ELSE fetch_readme_content(raw, cf, t, env)
    IN  [raised |-> f.raised \/ raw.missing # "none",
         fetch |-> f,
         rc |-> [full_name |-> raw.full_name, name |-> NameOf(raw.full_name),
                 description |-> raw.description, stars |-> raw.stars,
                 updated_at |-> raw.updated_at, archived |-> raw.archived,
                 readme_content |-> f.text, topics |-> raw.topics,
                 last_indexed |-> t]]

\* ContentIndexer.process_repository.  missing names a key absent from the
\* raw record ("none" when the record is complete).
process_repository(raw, cf, t, env) ==
    LET f == IF raw.archived THEN [NoFetch EXCEPT !.cf = cf]
             ELSE IF raw.missing = "full_name"
                  THEN [NoFetch EXCEPT !.cf = cf, !.raised = TRUE]
                  ELSE fetch_readme_content(raw, cf, t, env)
    IN  [raised |-> f.raised \/ raw.missing # "none",
         fetch |-> f,
         rc |-> [full_name |-> raw.full_name, name |-> NameOf(raw.full_name),
                 description |-> raw.description, stars |-> raw.stars,
                 updated_at |-> raw.updated_at, archived |-> raw.archived,
                 readme_content |-> f.text, topics |-> raw.topics,
                 last_indexed |-> t]]

----------------------------------------------------------------------------
(* Indexing runs: manage.py build -> ContentIndexer.build_index *)

\* Records of the upstream listing.  Complete records, and records lacking one
\* key; a record without full_name is written with the empty full_name.
RawRecords ==
    { [full_name |-> PrimaryName, description |-> <<"a">>, stars |-> 0,
       updated_at |-> u, archived |-> a, topics |-> <<>>, missing |-> m] :
         u \in Times, a \in BOOLEAN, m \in {"none"} }
    \cup
    { [full_name |-> PrimaryName, description |-> <<"a">>, stars |-> 0,
       updated_at |-> 0, archived |-> FALSE, topics |-> <<>>, missing |-> m] :
         m \in {"name", "html_url"} }
    \cup
    { [full_name |-> fn, description |-> <<"a">>, stars |-> 0,
       updated_at |-> 0, archived |-> TRUE, topics |-> <<>>, missing |-> "none"] :
         fn \in FullNames \ {PrimaryName} }
    \cup
    { [NoRaw EXCEPT !.description = <<"a">>, !.missing = "full_name"] }

\* Answers of the remote side to the candidate requests, with the state of
\* the cache directory.  Candidates from the second on answer alike.
Responses ==
    { r \in [1..NumCandidates -> RespKinds] :
        \A i \in 2..NumCandidates : r[i] = r[2] }

QuietEnv ==
    [resp |-> [i \in 1..NumCandidates |-> "notfound"],
     content |-> <<"#">>, readFault |-> FALSE, writeFault |-> FALSE]

Envs(cf) ==
    { [resp |-> r, content |-> c, readFault |-> rf, writeFault |-> wf] :
        r \in Responses, c \in RemoteContents,
        rf \in (IF cf.exists THEN BOOLEAN ELSE {FALSE}), wf \in BOOLEAN }

CacheOf(raw) ==
    IF raw.full_name \in FullNames THEN cache[raw.full_name] ELSE NoCache

EnvsFor(raw) ==
    IF raw.archived \/ raw.missing \in {"name", "full_name"}
    THEN {QuietEnv} ELSE Envs(CacheOf(raw))

\* What the iteration observed: the faults are recorded where they took
\* effect (a cache check on an existing entry, a write after a file response).
ItemOf(raw, env, f) ==
    LET fileSeen == \E i \in 1..f.requests : env.resp[i] = "file"
    IN  [raw |-> raw, cached |-> CacheOf(raw), lookup |-> f.lookup,
         got |-> f.got, requests |-> f.requests,
         netError |-> \E i \in 1..f.requests : env.resp[i] = "error",
         fileSeen |-> fileSeen,
         cleaned |-> IF fileSeen THEN clean_markdown(env.content) ELSE <<>>,
         text |-> f.text,
         readFault |-> f.lookup = "error",
         writeFault |-> fileSeen /\ env.writeFault]

\* manage.build_index: ContentIndexer() opens the database, build_index starts.
StartRun ==
    /\ pc = "idle"
    /\ pc' = "running"
    /\ run' = [status |-> "running", items |-> 0, ok |-> {}, seen |-> {}]
    /\ op' = [NoOp EXCEPT !.name = "start"]
    /\ UNCHANGED <<rows, fts, dbRows, dbFts, cache, now, upserted, resp>>

\* One iteration of the loop of build_index over a record that has its name
\* and full_name: process_repository, save_to_database, and the except clause.
ProcessItem ==
    /\ pc = "running"
    /\ run.items < MaxItems
    /\ NewRowid(rows) <= MaxRowid
    /\ \E raw \in { r \in RawRecords : /\ r.missing # "full_name"
                                        /\ r.full_name \notin run.seen } :
       \E env \in EnvsFor(raw) :
          \E p \in { process_repository(raw, CacheOf(raw), now, env) } :
             \E failed \in { raw.missing = "name" \/ p.raised } :
                \E w \in { IF failed
                            THEN [rows |-> rows, fts |-> fts, result |-> "Failed"]
                            ELSE save_to_database(rows, fts, p.rc) } :
                   /\ cache' = IF raw.missing = "name" THEN cache
                               ELSE [cache EXCEPT ![raw.full_name] = p.fetch.cf]
                   /\ rows' = w.rows
                   /\ fts' = w.fts
                   /\ upserted' = IF failed THEN upserted
                                  ELSE upserted \cup {raw.full_name}
                   /\ run' = [run EXCEPT
                                 !.items = @ + 1,
                                 !.seen = @ \cup {raw.full_name},
                                 !.ok = IF failed THEN @ ELSE @ \cup {p.rc}]
                   /\ op' = [name |-> "item",
                             rc |-> IF failed THEN NoRecord ELSE p.rc,
                             result |-> w.result,
                             item |-> IF raw.missing = "name"
                                      THEN [NoItem EXCEPT !.raw = raw]
                                      ELSE ItemOf(raw, env, p.fetch)]
    /\ UNCHANGED <<dbRows, dbFts, now, pc, resp>>

\* One iteration over a record without full_name: the KeyError is caught by
\* the except clause, whose message reads repo_data['full_name'] again; that
\* KeyError leaves build_index, conn.commit() is not reached and the
\* connection is dropped with its open transaction.
ProcessItemEscapes ==
    /\ pc = "running"
    /\ run.items < MaxItems
    /\ \E raw \in RawRecords :
        /\ raw.missing = "full_name"
        /\ op' = [NoOp EXCEPT !.name = "item", !.result = "Escaped",
                              !.item = [NoItem EXCEPT !.raw = raw]]
    /\ rows' = dbRows
    /\ fts' = dbFts
    /\ upserted' = { r.full_name : r \in dbRows }
    /\ run' = [run EXCEPT !.status = "aborted", !.items = @ + 1]
    /\ pc' = "idle"
    /\ UNCHANGED <<dbRows, dbFts, cache, now, resp>>

\* The loop of build_index ends: self.conn.commit().
FinishRun ==
    /\ pc = "running"
    /\ dbRows' = rows
    /\ dbFts' = fts
    /\ run' = [run EXCEPT !.status = "committed"]
    /\ pc' = "idle"
    /\ op' = [NoOp EXCEPT !.name = "commit"]
    /\ UNCHANGED <<rows, fts, cache, now, upserted, resp>>

NextIndex == StartRun \/ ProcessItem \/ ProcessItemEscapes \/ FinishRun
                \/ cleanup \/ Tick

SpecIndex == Init /\ [][NextIndex]_vars

----------------------------------------------------------------------------
(* Properties of the content store, checked under SpecStore *)

RcTokens(rc) == DocTokens(FtsDoc(RowOf(rc, 0)))

Terms == UNION { RcTokens(rc) : rc \in RepoContents(0) }

LastUpsert == op.name = "upsert"

LastWritten == LastUpsert /\ op.result = "Written"

\* C1: after any sequence of upserts and deletes the shadow index holds as
\* many entries as the store holds rows, and the full_names of the two agree.
C1_ShadowIndexConsistent ==
    /\ Cardinality(fts) = Cardinality(rows)
    /\ { d.full_name : d \in fts } = { r.full_name : r \in rows }

\* The step is a call of save_to_database (a repeated identical Skipped call
\* changes nothing and is a stuttering step).
UpsertStep == op'.name = "upsert" /\ <<op, rows>>' # <<op, rows>>

\* C2: after a Written upsert of an already stored full_name, a full-text
\* query for a term found only in the previous content does not return the
\* record, and a query for any term of the new content returns it exactly once.
C2_DeleteThenInsert ==
    [][(UpsertStep /\ op'.result = "Written") =>
        \A old \in SelectByFullName(rows, op'.rc.full_name) :
            /\ \A t \in DocTokens(FtsDoc(old)) \ RcTokens(op'.rc) :
                   SelectByFullName(search_repositories(rows', fts', t),
                                    op'.rc.full_name) = {}
            /\ \A t \in RcTokens(op'.rc) :
                   Cardinality(SelectByFullName(search_repositories(rows', fts', t),
                                                op'.rc.full_name)) = 1]_vars

\* Index documents of a full_name whose row has been replaced since.
StaleDocs(fn) ==
    { d \in fts : d.full_name = fn /\ d.rowid \notin { r.rowid : r \in rows } }

C2_Witness ==
    /\ LastWritten
    /\ \E d \in StaleDocs(op.rc.full_name) :
           /\ \A e \in StaleDocs(op.rc.full_name) : e.rowid <= d.rowid
           /\ DocTokens(d) \ RcTokens(op.rc) # {}

ContentEqual(r, rc) ==
    /\ r.description = rc.description
    /\ r.readme_content = rc.readme_content
    /\ r.updated_at = rc.updated_at

\* C3: an upsert followed by a get of the same full_name yields a row that is
\* content-equal to the record handed in, and a full-text query for a term
\* that occurs in this record's name and in no other row returns the record.
C3_RoundTrip ==
    LastUpsert =>
        LET got == SelectByFullName(rows, op.rc.full_name)
        IN  /\ got # {}
            /\ \A r \in got : ContentEqual(r, op.rc)
            /\ \A t \in fts5_tokens(op.rc.name) :
                   (\A o \in rows \ got : t \notin DocTokens(FtsDoc(o)))
                       => got \subseteq search_repositories(rows, fts, t)

\* C4: an upsert whose fingerprint equals the stored one is Skipped and the
\* stored row, its last_indexed included, stays as the first write left it.
C4_IdempotentUpsert ==
    [][(UpsertStep /\ \E r \in SelectByFullName(rows, op'.rc.full_name) :
                          r.content_hash = get_content_hash(op'.rc)) =>
        /\ op'.result = "Skipped"
        /\ rows' = rows
        /\ fts' = fts]_vars

C4_Witness ==
    /\ LastUpsert
    /\ op.result = "Skipped"
    /\ \E r \in SelectByFullName(rows, op.rc.full_name) :
           r.last_indexed # op.rc.last_indexed

\* C5: the store holds at most one row per full_name, and exactly one for
\* every full_name upserted since the store was last emptied.
C5_OneRowPerFullName ==
    \A fn \in FullNames :
        /\ Cardinality(SelectByFullName(rows, fn)) <= 1
        /\ fn \in upserted => Cardinality(SelectByFullName(rows, fn)) = 1

C5_Witness ==
    /\ LastWritten
    /\ StaleDocs(op.rc.full_name) # {}
    /\ upserted = FullNames

\* C11: an upsert whose fingerprint equals the stored one leaves the stored
\* row as it was (stars, name, topics, archived and last_indexed included) and
\* leaves the index entries of that full_name as they were, also when the
\* incoming stars or last_indexed differ from the stored ones.
C11_UnchangedFingerprintNoOp ==
    [][UpsertStep =>
        \A r \in SelectByFullName(rows, op'.rc.full_name) :
            r.content_hash = get_content_hash(op'.rc) =>
                /\ SelectByFullName(rows', r.full_name) = {r}
                /\ \A r2 \in SelectByFullName(rows', r.full_name) :
                       /\ r2.stars = r.stars
                       /\ r2.last_indexed = r.last_indexed
                       /\ r2.archived = r.archived
                       /\ r2.topics = r.topics
                       /\ r2.name = r.name
                /\ { d \in fts' : d.full_name = r.full_name }
                       = { d \in fts : d.full_name = r.full_name }]_vars

C11_Witness ==
    /\ LastUpsert
    /\ op.result = "Skipped"
    /\ \E r \in SelectByFullName(rows, op.rc.full_name) :
           /\ r.stars # op.rc.stars
           /\ r.last_indexed # op.rc.last_indexed

----------------------------------------------------------------------------
(* Properties of indexing runs, checked under SpecIndex *)

LastItem == op.name = "item"

\* C6: a cache lookup returns the cached text if and only if the cache file
\* exists and its modification time is strictly after the record's
\* updated_at; with an equal or older modification time it is a Miss.
C6_CacheFreshness ==
    (LastItem /\ op.item.lookup \in {"hit", "miss"}) =>
        LET cf == op.item.cached
            u == op.item.raw.updated_at
        IN  /\ op.item.lookup = "hit" <=> (cf.exists /\ cf.mtime > u)
            /\ op.item.lookup = "hit" =>
                   (op.item.text = cf.text /\ op.item.requests = 0)
            /\ (cf.exists /\ cf.mtime <= u) => op.item.lookup = "miss"

C6_Witness ==
    /\ LastItem
    /\ op.item.lookup = "miss"
    /\ op.item.cached.exists
    /\ op.item.cached.mtime = op.item.raw.updated_at
    /\ op.item.cached.text # <<>>

\* C7: a failure of one record is caught at the item boundary; no exception
\* leaves the loop, so the run goes on and reaches its commit.
C7_NoExceptionLeavesBatch ==
    /\ op.result # "Escaped"
    /\ run.status # "aborted"

\* C8: when a run has ended, normally or not, the persisted store holds the
\* upserted state of every record of that run that was processed with success.
C8_NoCrossItemLoss ==
    (pc = "idle" /\ run.status \in {"committed", "aborted"}) =>
        \A rc \in run.ok :
            \E r \in dbRows : /\ r.full_name = rc.full_name
                               /\ r.content_hash = get_content_hash(rc)

\* The step is one iteration of the loop of build_index.
ItemStep == op'.name = "item" /\ run' # run

\* C9: when README retrieval fails with a network error the item counts as
\* failed and is not written, so the stored row keeps its readme_content.
C9_FetchFailureSkipsItem ==
    [][(ItemStep /\ op'.item.lookup = "miss" /\ op'.item.netError
                 /\ ~op'.item.got) =>
        /\ op'.result = "Failed"
        /\ rows' = rows]_vars

\* C10: an error while reading a cache entry is treated as a Miss and the
\* item is still processed; an error while writing a cache entry is swallowed
\* and the freshly fetched cleaned text is still returned and used.
C10_CacheIoDegrades ==
    (LastItem /\ op.item.raw.missing = "none") =>
        /\ (op.item.readFault /\ op.item.cached.exists) =>
               (op.item.lookup = "miss" /\ op.result \in {"Written", "Skipped"})
        /\ (op.item.writeFault /\ op.item.lookup = "miss" /\ op.item.fileSeen) =>
               (op.item.text = op.item.cleaned
                    /\ op.rc.readme_content = op.item.cleaned)

----------------------------------------------------------------------------
(* Search engine: text handling (search_api.py) *)

\* \w of the re module: alphanumerics and the underscore.
WordChars == AlNum \cup { "_" }

\* str.strip()
RECURSIVE str_strip(_)
str_strip(s) ==
    IF s = <<>> THEN s
    ELSE IF Head(s) = " " THEN str_strip(Tail(s))
    ELSE IF s[Len(s)] = " " THEN str_strip(SubSeq(s, 1, Len(s) - 1))
    ELSE s

\* AdvancedSearchEngine.normalize_query: lower case, every character that is
\* neither a word character nor white space becomes a space, runs of white
\* space collapse to one space, the ends are stripped.
normalize_query(query) ==
    str_strip(CollapseSpaces(
        [i \in 1..Len(query) |->
            IF Lower(query[i]) \in WordChars \cup { " " }
            THEN Lower(query[i]) ELSE " "]))

\* The maximal runs of word characters of s, in order.
WordRuns(s) ==
    [n \in 1..Cardinality(RunStarts(s, WordChars)) |->
        LET i == CHOOSE x \in RunStarts(s, WordChars) :
                    Cardinality({ y \in RunStarts(s, WordChars) : y < x }) = n - 1
        IN  SubSeq(s, i, RunEnd(s, WordChars, i))]

stop_words ==
    {
      <<"t","h","e">>, <<"a","n","d">>, <<"f","o","r">>, <<"a","r","e">>,
      <<"b","u","t">>, <<"n","o","t">>, <<"y","o","u">>, <<"a","l","l">>,
      <<"c","a","n">>, <<"h","a","d">>, <<"h","e","r">>, <<"w","a","s">>,
      <<"o","n","e">>, <<"o","u","r">>, <<"o","u","t">>, <<"d","a","y">>,
      <<"g","e","t">>, <<"h","a","s">>, <<"h","i","m">>, <<"h","i","s">>,
      <<"h","o","w">>, <<"i","t","s">>, <<"m","a","y">>, <<"n","e","w">>,
      <<"n","o","w">>, <<"o","l","d">>, <<"s","e","e">>, <<"t","w","o">>,
      <<"w","a","y">>, <<"w","h","o">>, <<"b","o","y">>, <<"d","i","d">>,
      <<"s","h","e">>, <<"u","s","e">>, <<"m","a","n","y">>,
      <<"s","o","m","e">>, <<"t","i","m","e">>, <<"v","e","r","y">>,
      <<"w","h","e","n">>, <<"m","u","c","h">>, <<"t","h","e","n">>,
      <<"t","h","e","m">>, <<"w","e","l","l">>, <<"w","e","r","e">>
    }

IsKeyword(w) == Len(w) >= 3 /\ w \notin stop_words

\* AdvancedSearchEngine.extract_keywords: re.findall(r'\b\w{3,}\b', lower
\* cased text) without the stop words; order and repetitions are kept.
extract_keywords(text) ==
    IF text = <<>> THEN <<>>
    ELSE SelectSeq(WordRuns(LowerStr(text)), IsKeyword)

\* Python's `w in s` on strings.
IsSubstr(w, s) ==
    \E i \in 0..(Len(s) - Len(w)) : SubSeq(s, i + 1, i + Len(w)) = w

\* Blocks (i, j, k) with a[i+1..i+k] = b[j+1..j+k] inside a[alo+1..ahi],
\* b[blo+1..bhi].
MatchingBlocks(a, b, alo, ahi, blo, bhi) ==
    { blk \in (alo..(ahi - 1)) \X (blo..(bhi - 1)) \X (1..(ahi - alo)) :
        /\ blk[1] + blk[3] <= ahi
        /\ blk[2] + blk[3] <= bhi
        /\ SubSeq(a, blk[1] + 1, blk[1] + blk[3])
             = SubSeq(b, blk[2] + 1, blk[2] + blk[3]) }

\* difflib.SequenceMatcher.find_longest_match without junk: the longest
\* block, of those the one starting earliest in a, of those earliest in b.
find_longest_match(a, b, alo, ahi, blo, bhi) ==
    LET bs == MatchingBlocks(a, b, alo, ahi, blo, bhi)
    IN  IF bs = {} THEN <<alo, blo, 0>>
        ELSE CHOOSE x \in bs :
               \A y \in bs :
                  \/ x[3] > y[3]
                  \/ x[3] = y[3] /\ x[1] < y[1]
                  \/ x[3] = y[3] /\ x[1] = y[1] /\ x[2] <= y[2]

\* Total size of difflib.SequenceMatcher.get_matching_blocks: the longest
\* match, then recursively the pieces to its left and to its right.
RECURSIVE MatchTotal(_, _, _, _, _, _)
MatchTotal(a, b, alo, ahi, blo, bhi) ==
    IF alo >= ahi \/ blo >= bhi THEN 0
    ELSE LET m == find_longest_match(a, b, alo, ahi, blo, bhi)
         IN  IF m[3] = 0 THEN 0
             ELSE m[3] + MatchTotal(a, b, alo, m[1], blo, m[2])
                       + MatchTotal(a, b, m[1] + m[3], ahi, m[2] + m[3], bhi)

\* Similarities are fixed-point numbers in millionths.
Million == 1000000

\* difflib.SequenceMatcher(None, a, b).ratio() = 2.0 * matches / (|a| + |b|)
ratio(a, b) == (2 * MatchTotal(a, b, 0, Len(a), 0, Len(b)) * Million) \div (Len(a) + Len(b))

\* Variant: a ratio below 0.6 is kept.
word_score_unclamped(query_word, text_word) ==
    IF query_word = text_word THEN Million
    ELSE IF IsSubstr(query_word, text_word) \/ IsSubstr(text_word, query_word)
         THEN 8 * (Million \div 10)
    ELSE ratio(query_word, text_word)

\* The score of one query word against one text word (lines 67-77); a ratio
\* below 0.6 counts as no match.
word_score(query_word, text_word) ==
    IF query_word = text_word THEN Million
    ELSE IF IsSubstr(query_word, text_word) \/ IsSubstr(text_word, query_word)
         THEN 8 * (Million \div 10)
    ELSE IF 10 * MatchTotal(query_word, text_word, 0, Len(query_word), 0, Len(text_word))
              < 3 * (Len(query_word) + Len(text_word))
         THEN 0
    ELSE ratio(query_word, text_word)

best_match_score(query_word, text_words) ==
    Max({ 0 } \cup { word_score(query_word, text_words[j]) : j \in 1..Len(text_words) })

RECURSIVE SumBest(_, _)
SumBest(query_words, text_words) ==
    IF query_words = <<>> THEN 0
    ELSE best_match_score(Head(query_words), text_words)
           + SumBest(Tail(query_words), text_words)

\* AdvancedSearchEngine.calculate_text_similarity (the score of the pair it
\* returns): the mean over the query words of their best match.
calculate_text_similarity(query_words, text) ==
    IF text = <<>> \/ query_words = <<>> THEN 0
    ELSE LET text_words == extract_keywords(text)
         IN  IF text_words = <<>> THEN 0
             ELSE SumBest(query_words, text_words) \div Len(query_words)

----------------------------------------------------------------------------
(* Search engine: scoring (search_api.py, score_repository) *)

\* Scores are fixed-point numbers in hundredths of a millionth.
One == 100 * Million

\* math.log10(n) in millionths, rounded down, for n = 1..128.
Log10Table ==
    <<
      0, 301029, 477121, 602059, 698970, 778151, 845098, 903089, 954242,
      1000000, 1041392, 1079181, 1113943, 1146128, 1176091, 1204119, 1230448,
      1255272, 1278753, 1301029, 1322219, 1342422, 1361727, 1380211, 1397940,
      1414973, 1431363, 1447158, 1462397, 1477121, 1491361, 1505149, 1518513,
      1531478, 1544068, 1556302, 1568201, 1579783, 1591064, 1602059, 1612783,
      1623249, 1633468, 1643452, 1653212, 1662757, 1672097, 1681241, 1690196,
      1698970, 1707570, 1716003, 1724275, 1732393, 1740362, 1748188, 1755874,
      1763427, 1770852, 1778151, 1785329, 1792391, 1799340, 1806179, 1812913,
      1819543, 1826074, 1832508, 1838849, 1845098, 1851258, 1857332, 1863322,
      1869231, 1875061, 1880813, 1886490, 1892094, 1897627, 1903089, 1908485,
      1913813, 1919078, 1924279, 1929418, 1934498, 1939519, 1944482, 1949390,
      1954242, 1959041, 1963787, 1968482, 1973127, 1977723, 1982271, 1986771,
      1991226, 1995635, 2000000, 2004321, 2008600, 2012837, 2017033, 2021189,
      2025305, 2029383, 2033423, 2037426, 2041392, 2045322, 2049218, 2053078,
      2056904, 2060697, 2064457, 2068185, 2071882, 2075546, 2079181, 2082785,
      2086359, 2089905, 2093421, 2096910, 2100370, 2103803, 2107209
    >>

Log10Micro(n) ==
    CASE n <= Len(Log10Table) -> Log10Table[n]
      [] n = 1001 -> 3000434
      [] n = 100000 -> 5000000
      [] n = 1000001 -> 6000000

\* Variant: the boost is not capped.
popularity_boost_uncapped(stars) == Log10Micro(stars + 1) * 10

\* min(math.log10(stars + 1) * 0.1, 0.5)
popularity_boost(stars) ==
    IF Log10Micro(stars + 1) * 10 < One \div 2
    THEN Log10Micro(stars + 1) * 10 ELSE One \div 2

\* The quoted strings of a JSON array of strings, left to right.
RECURSIVE JsonStrings(_, _, _)
JsonStrings(s, inside, cur) ==
    IF s = <<>> THEN <<>>
    ELSE IF Head(s) = "\""
         THEN (IF inside THEN <<cur>> ELSE <<>>) \o JsonStrings(Tail(s), ~inside, <<>>)
         ELSE JsonStrings(Tail(s), inside, IF inside THEN Append(cur, Head(s)) ELSE cur)

\* json.loads of a topics column.
json_loads(s) ==
    IF Len(s) >= 2 /\ Head(s) = "[" /\ s[Len(s)] = "]"
    THEN [ok |-> TRUE, value |-> JsonStrings(s, FALSE, <<>>)]
    ELSE [ok |-> FALSE, value |-> <<>>]

\* " ".join(strings)
RECURSIVE JoinSpace(_)
JoinSpace(ts) ==
    IF ts = <<>> THEN <<>>
    ELSE IF Tail(ts) = <<>> THEN Head(ts)
    ELSE Head(ts) \o <<" ">> \o JoinSpace(Tail(ts))

\* max_length of extract_snippet and the step of its window
SnippetLength == 200
SnippetStep == 50

Min(a, b) == IF a <= b THEN a ELSE b

\* text[i:i+n] of Python (i counted from 0)
Slice(text, i, n) == SubSeq(text, i + 1, Min(Len(text), i + n))

RECURSIVE CountIn(_, _)
CountIn(query_words, snippet) ==
    IF query_words = <<>> THEN 0
    ELSE (IF IsSubstr(Head(query_words), snippet) THEN 1 ELSE 0)
           + CountIn(Tail(query_words), snippet)

\* AdvancedSearchEngine.extract_snippet for a non-empty text and query: the
\* first window with the most query words, with ellipses where it is cut.
extract_snippet(text, query_words) ==
    LET starts == { i \in 0..(Len(text) - 1) : i % SnippetStep = 0 }
        score(i) == CountIn(query_words, Slice(LowerStr(text), i, SnippetLength))
        best_score == Max({ 0 } \cup { score(i) : i \in starts })
        best_pos == IF best_score = 0 THEN 0
                    ELSE CHOOSE i \in starts :
                           /\ score(i) = best_score
                           /\ \A j \in starts : score(j) = best_score => i <= j
    IN  (IF best_pos > 0 THEN <<".", ".", ".">> ELSE <<>>)
          \o Slice(text, best_pos, SnippetLength)
          \o (IF best_pos + SnippetLength < Len(text) THEN <<".", ".", ".">> ELSE <<>>)

\* fields_weights of score_repository, in iteration order, weights in
\* hundredths
ScoredFields == << "name", "full_name", "description", "readme_content", "topics" >>

field_weight(field) ==
    CASE field = "name" -> 300
      [] field = "full_name" -> 250
      [] field = "description" -> 200
      [] field = "readme_content" -> 150
      [] field = "topics" -> 250

\* The text of a field as score_repository reads it (topics: the JSON string
\* parsed and joined with spaces, "" when it does not parse).
field_value(repo, field) ==
    IF field = "topics"
    THEN (IF repo.topics = <<>> THEN <<>>
          ELSE LET parsed == json_loads(repo.topics)
               IN  IF parsed.ok THEN JoinSpace(parsed.value) ELSE <<>>)
    ELSE repo[field]

field_similarity(repo, field, query_words) ==
    calculate_text_similarity(query_words, field_value(repo, field))

IsMatched(repo, query_words, field) == field_similarity(repo, field, query_words) > 0

RECURSIVE SumFields(_, _, _)
SumFields(repo, fields, query_words) ==
    IF fields = <<>> THEN 0
    ELSE field_similarity(repo, Head(fields), query_words) * field_weight(Head(fields))
           + SumFields(repo, Tail(fields), query_words)

\* The sum of the field scores of score_repository.
relevance(repo, query_words) == SumFields(repo, ScoredFields, query_words)

\* Variant: the penalty for archived repositories is applied before the boost
\* is added.
total_score_penalty_first(repo, query_words) ==
    (IF repo.archived THEN (relevance(repo, query_words) \div 10) * 7
     ELSE relevance(repo, query_words)) + popularity_boost(repo.stars)

\* total_score of score_repository: field scores, plus the boost, times 0.7
\* for an archived repository (the sum is a multiple of ten units, so the
\* product is exact).
total_score(repo, query_words) ==
    IF repo.archived
    THEN ((relevance(repo, query_words) + popularity_boost(repo.stars)) \div 10) * 7
    ELSE relevance(repo, query_words) + popularity_boost(repo.stars)

\* SearchResult with score 0.0 and nothing matched
UnscoredResult(repo) ==
    [repo |-> repo, score |-> 0, matched_fields |-> <<>>, snippets |-> <<>>]

\* AdvancedSearchEngine.score_repository
score_repository(repo, query) ==
    LET query_words == extract_keywords(normalize_query(query))
    IN  IF query_words = <<>> THEN UnscoredResult(repo)
        ELSE LET matched == SelectSeq(ScoredFields,
                                      LAMBDA f : IsMatched(repo, query_words, f))
             IN  [repo |-> repo,
                  score |-> total_score(repo, query_words),
                  matched_fields |-> matched,
                  snippets |->
                     [f \in { g \in {"description", "readme_content"} :
                                 IsMatched(repo, query_words, g) } |->
                        extract_snippet(repo[f], query_words)]]

----------------------------------------------------------------------------
(* Search engine: retrieval (search_api.py, search and get_all_repos) *)

\* ORDER BY stars DESC leaves the order of rows with equal stars open; the
\* engine may return them by ascending or by descending rowid.
TieBreaks == { "asc", "desc" }

Before(x, r, tie) ==
    \/ x.stars > r.stars
    \/ /\ x.stars = r.stars
       /\ IF tie = "asc" THEN x.rowid < r.rowid ELSE x.rowid > r.rowid

\* SELECT * FROM repo_index ORDER BY stars DESC
OrderByStars(rs, tie) ==
    [i \in 1..Cardinality(rs) |->
        CHOOSE r \in rs : Cardinality({ x \in rs : Before(x, r, tie) }) = i - 1]

\* seq[:n] of Python, n of either sign
Prefix(seq, n) ==
    IF n >= 0 THEN SubSeq(seq, 1, Min(n, Len(seq)))
    ELSE SubSeq(seq, 1, Len(seq) + n)

\* LIMIT n of SQLite: a negative n means no limit
SqlLimit(seq, n) == IF n < 0 THEN seq ELSE SubSeq(seq, 1, Min(n, Len(seq)))

\* The number of results that a descending stable sort puts before the k-th.
ScoreRank(results, k) ==
    Cardinality({ m \in 1..Len(results) :
                    \/ results[m].score > results[k].score
                    \/ results[m].score = results[k].score /\ m < k })

Permuted(seq, ranks) ==
    [i \in 1..Len(seq) |-> seq[CHOOSE k \in 1..Len(seq) : ranks[k] = i - 1]]

\* list.sort(key = score, reverse = True): descending, stable
SortByScore(results) ==
    Permuted(results, [k \in 1..Len(results) |-> ScoreRank(results, k)])

\* What the store does to the queries of one request: "none" answers them,
\* "fts" makes the full-text query raise sqlite3.OperationalError, "store"
\* makes every query raise it.
StoreFaults == { "none", "fts", "store" }

Raised == [raised |-> TRUE, results |-> <<>>]
Returned(results) == [raised |-> FALSE, results |-> results]

\* Variant: the rows are taken in ascending order of stars.
get_all_repos_ascending(ordered, limit, fault) ==
    IF fault = "store" THEN Raised
    ELSE LET page == SqlLimit([i \in 1..Len(ordered) |->
                                  ordered[Len(ordered) + 1 - i]], limit)
         IN  Returned([i \in 1..Len(page) |-> UnscoredResult(page[i])])

\* AdvancedSearchEngine.get_all_repos over the rows in ORDER BY order
get_all_repos(ordered, limit, fault) ==
    IF fault = "store" THEN Raised
    ELSE LET page == SqlLimit(ordered, limit)
         IN  Returned([i \in 1..Len(page) |-> UnscoredResult(page[i])])

\* The rows of the full-text query: those whose index document holds one of
\* the keywords (fts_query is their disjunction).
FtsRows(ordered, ix, query_words) ==
    SelectSeq(ordered,
              LAMBDA r : \E k \in 1..Len(query_words) :
                            r.rowid \in fts_match(ix, query_words[k]))

\* Variant: results below min_score are kept.
Qualifying_unfiltered(repos, query, min_score) ==
    [i \in 1..Len(repos) |-> score_repository(repos[i], query)]

\* The loops at lines 213-216 and 231-238: score each row, keep the results
\* at or above min_score.
Qualifying(repos, query, min_score) ==
    SelectSeq([i \in 1..Len(repos) |-> score_repository(repos[i], query)],
              LAMBDA res : res.score >= min_score)

\* Lines 222-238: the second tier runs when the first left fewer than
\* limit // 2 results; it scores every row not among them.
fuzzy_tier(exact, ordered, query, limit, min_score, fault) ==
    IF Len(exact) < limit \div 2
    THEN IF fault = "store" THEN Raised
         ELSE Returned(exact \o
                Qualifying(SelectSeq(ordered,
                              LAMBDA r : \A k \in 1..Len(exact) :
                                            exact[k].repo.full_name # r.full_name),
                           query, min_score))
    ELSE Returned(exact)

\* AdvancedSearchEngine.search over the committed store: `ordered` is
\* repo_index in ORDER BY stars DESC order, ix the index of repo_fts.
search(ordered, ix, query, limit, min_score, fault) ==
    IF str_strip(query) = <<>> THEN get_all_repos(ordered, limit, fault)
    ELSE LET query_words == extract_keywords(normalize_query(query))
         IN  IF query_words = <<>> THEN get_all_repos(ordered, limit, fault)
             ELSE LET exact == IF fault = "none"
                               THEN Qualifying(FtsRows(ordered, ix, query_words),
                                               query, min_score)
                               ELSE <<>>
                      fused == fuzzy_tier(exact, ordered, query, limit,
                                          min_score, fault)
                  IN  IF fused.raised THEN Raised
                      ELSE Returned(Prefix(SortByScore(fused.results), limit))

----------------------------------------------------------------------------
(* The /api/search endpoint (search_api.py, lines 303-339) *)

\* limit and the cap of the endpoint, min_score in score units
DefaultLimit == 50
MaxLimit == 100
DefaultMinScore == One \div 10

Digits == << "0", "1", "2", "3", "4", "5", "6", "7", "8", "9" >>
DigitChars == { Digits[i] : i \in 1..10 }
DigitVal(c) == (CHOOSE i \in 1..10 : Digits[i] = c) - 1

RECURSIVE DecValue(_, _)
DecValue(s, acc) ==
    IF s = <<>> THEN acc ELSE DecValue(Tail(s), 10 * acc + DigitVal(Head(s)))

AllDigits(s) == s # <<>> /\ \A i \in 1..Len(s) : s[i] \in DigitChars

\* int(text): an optional sign and decimal digits, ValueError otherwise
ParseInt(text) ==
    LET neg == text # <<>> /\ Head(text) = "-"
        body == IF neg THEN Tail(text) ELSE text
    IN  IF AllDigits(body)
        THEN [ok |-> TRUE, value |-> IF neg THEN 0 - DecValue(body, 0)
                                     ELSE DecValue(body, 0)]
        ELSE [ok |-> FALSE, value |-> 0]

\* float(text) for decimal literals "d..d" and "d..d.d", in score units;
\* ValueError for a text that is no number
ParseFloat(text) ==
    LET dot == { i \in 1..Len(text) : text[i] = "." }
    IN  IF dot = {} /\ AllDigits(text)
        THEN [ok |-> TRUE, value |-> DecValue(text, 0) * One]
        ELSE IF Cardinality(dot) = 1 /\ Len(text) >= 3 /\ text[Len(text) - 1] = "."
                  /\ AllDigits(SubSeq(text, 1, Len(text) - 2))
                  /\ text[Len(text)] \in DigitChars
        THEN [ok |-> TRUE,
              value |-> DecValue(SubSeq(text, 1, Len(text) - 2), 0) * One
                          + DigitVal(text[Len(text)]) * (One \div 10)]
        ELSE [ok |-> FALSE, value |-> 0]

\* request.args.get(name, default) is a text or, when the parameter is not
\* given, the default
NotGiven == [given |-> FALSE, text |-> <<>>]
Given(text) == [given |-> TRUE, text |-> text]

\* The element of the results array built at lines 315-326
ResponseItem(result) ==
    [search_score |-> result.score,
     matched_fields |-> result.matched_fields,
     snippets |-> result.snippets,
     topics |-> IF result.repo.topics = <<>> THEN <<>>
                ELSE json_loads(result.repo.topics).value] @@ result.repo

\* The view function search(): "unhandled" is an exception that leaves it,
\* "failure" the structured answer of its except clause.
api_search(args, ordered, ix, fault) ==
    LET query == str_strip(args.q)
        lim == IF args.limit.given THEN ParseInt(args.limit.text)
               ELSE [ok |-> TRUE, value |-> DefaultLimit]
        ms == IF args.min_score.given THEN ParseFloat(args.min_score.text)
              ELSE [ok |-> TRUE, value |-> DefaultMinScore]
    IN  IF ~lim.ok \/ ~ms.ok
        THEN [status |-> "unhandled", query |-> query, total |-> 0, results |-> <<>>]
        ELSE LET out == search(ordered, ix, query, Min(lim.value, MaxLimit),
                               ms.value, fault)
             IN  IF out.raised
                 THEN [status |-> "failure", query |-> query, total |-> 0,
                       results |-> <<>>]
                 ELSE [status |-> "success", query |-> query,
                       total |-> Len(out.results),
                       results |-> [i \in 1..Len(out.results) |->
                                       ResponseItem(out.results[i])]]

----------------------------------------------------------------------------
(* Search specification: the index is built, /api/search is served *)

\* The records of the searched collection, as process_repository builds them
\* (no README found for any of them).
CorpusRecord(name, description, stars, archived, t) ==
    [full_name |-> <<"o", "/">> \o name, name |-> name,
     description |-> description, stars |-> stars, updated_at |-> 0,
     archived |-> archived, readme_content |-> <<>>, topics |-> <<>>,
     last_indexed |-> t]

SearchCorpus(t) ==
    { CorpusRecord(<<"f", "a", "s", "t", "j", "s", "o", "n">>, <<>>, 1000, FALSE, t),
      CorpusRecord(<<"s", "l", "o", "w", "j", "s", "o", "n">>, <<>>, 1, TRUE, t),
      CorpusRecord(<<"j", "s", "o", "n">>, <<>>, 7, FALSE, t),
      CorpusRecord(<<"z", "z", "z">>, <<"f", "a", "s", "t", "j", "s", "o", "n", " ", "s", "l", "o", "w", "y", "a", "m", "l">>, 7, FALSE, t) }

\* A listing of more starred repositories than the endpoint may return, with
\* two-letter names and distinct star counts.
BulkSize == MaxLimit + 1

BulkLetters == << "a", "b", "c", "d", "e", "f", "g", "h", "i", "j", "k" >>

BulkRecord(i, t) ==
    CorpusRecord(<< BulkLetters[((i - 1) \div 11) + 1], BulkLetters[((i - 1) % 11) + 1] >>,
                 <<>>,
                 IF i = BulkSize THEN 1000000
                 ELSE IF i = BulkSize - 1 THEN 99999 ELSE i - 1,
                 FALSE, t)

\* The loop of build_index over the listing, run on an empty database: every
\* full_name of the listing is new, so save_to_database finds no stored
\* fingerprint, the i-th record is inserted under rowid i and repo_ai indexes
\* it.
SaveListing(t) ==
    LET saved == { RowOf(BulkRecord(i, t), i) : i \in 1..BulkSize }
    IN  [rows |-> saved, fts |-> { FtsDoc(r) : r \in saved }]

\* The q, limit and min_score parameters of the requests.
Queries ==
    { <<>>, <<" ">>, <<"T", "h", "e", "!">>, <<"j", "s", "o", "n">>,
      <<"f", "a", "s", "t", "j", "s", "o", "n">>,
      <<"j", "s", "o", "n", " ", "f", "a", "s", "t", " ", "s", "l", "o", "w", " ", "y", "a", "m", "l">> }

LimitArgs ==
    { NotGiven, Given(<<"-", "1">>), Given(<<"0">>), Given(<<"1">>),
      Given(<<"2">>), Given(<<"1", "0", "1">>), Given(<<"x">>) }

MinScoreArgs == { NotGiven, Given(<<"2">>), Given(<<"x">>) }

Requests ==
    [q : Queries, limit : LimitArgs, min_score : MinScoreArgs]

\* build_index over a listing of one record: the record is saved and the
\* transaction committed.
IndexRecord ==
    /\ pc = "idle"
    /\ resp = NoResp
    /\ NewRowid(rows) <= MaxRowid
    /\ \E rc \in SearchCorpus(now) :
          \E w \in { save_to_database(rows, fts, rc) } :
             /\ rows' = w.rows
             /\ fts' = w.fts
             /\ dbRows' = w.rows
             /\ dbFts' = w.fts
             /\ upserted' = upserted \cup {rc.full_name}
             /\ op' = [NoOp EXCEPT !.name = "index"]
    /\ UNCHANGED <<cache, now, pc, run, resp>>

\* build_index over the large listing, into an empty database.
IndexListing ==
    /\ pc = "idle"
    /\ resp = NoResp
    /\ rows = {}
    /\ \E w \in { SaveListing(now) } :
          /\ rows' = w.rows
          /\ fts' = w.fts
          /\ dbRows' = w.rows
          /\ dbFts' = w.fts
    /\ upserted' = { BulkRecord(i, now).full_name : i \in 1..BulkSize }
    /\ op' = [NoOp EXCEPT !.name = "listing"]
    /\ UNCHANGED <<cache, now, pc, run, resp>>

\* GET /api/search: the view function runs against the committed database.
ServeSearch ==
    /\ resp = NoResp
    /\ \E tie \in TieBreaks :
          \E ordered \in { OrderByStars(dbRows, tie) } :
             \E args \in Requests, fault \in StoreFaults :
                resp' = [args |-> args, fault |-> fault]
                           @@ api_search(args, ordered, dbFts, fault)
    /\ UNCHANGED <<rows, fts, dbRows, dbFts, cache, now, pc, run, upserted, op>>

\* The response has been sent.
Reply ==
    /\ resp # NoResp
    /\ resp' = NoResp
    /\ UNCHANGED <<rows, fts, dbRows, dbFts, cache, now, pc, run, upserted, op>>

NextSearch == IndexRecord \/ IndexListing \/ ServeSearch \/ Reply

SpecSearch == Init /\ [][NextSearch]_vars

----------------------------------------------------------------------------
(* Suggestions: get_suggestions and the /api/suggestions endpoint *)

\* The shortest normalized query that is answered, the default and the cap
\* of limit at the endpoint
MinSuggestQuery == 2
DefaultSuggestLimit == 10
MaxSuggestLimit == 20

\* column LIKE '%' || q || '%' of SQLite: q occurs in the text, letters
\* compared without case, an underscore of q standing for any character.
LikeContains(q, text) ==
    \E i \in 0..(Len(text) - Len(q)) :
        \A j \in 1..Len(q) :
            q[j] = "_" \/ Lower(q[j]) = Lower(text[i + j])

\* WHERE name LIKE ? OR topics LIKE ?
LikeRows(rs, nq) ==
    { r \in rs : LikeContains(nq, r.name) \/ LikeContains(nq, r.topics) }

\* LIMIT limit * 3 without ORDER BY: any rows of the matching ones, all of
\* them for a negative limit.
FetchedRows(rs, nq, limit) ==
    IF limit < 0 THEN { LikeRows(rs, nq) }
    ELSE { S \in SUBSET LikeRows(rs, nq) :
             Cardinality(S) = Min(3 * limit, Cardinality(LikeRows(rs, nq))) }

\* json.loads(row['topics']) if row['topics'] else []
TopicsOf(r) ==
    IF r.topics = <<>> THEN <<>>
    ELSE json_loads(r.topics).value

\* Variant: the name of every fetched row is suggested.
SuggestionSet_all_names(fetched, nq) ==
    { r.name : r \in fetched }
    \cup UNION { { TopicsOf(r)[k] : k \in { m \in 1..Len(TopicsOf(r)) :
                                              IsSubstr(nq, LowerStr(TopicsOf(r)[m])) } } :
                 r \in fetched }

\* The set built by the loop over the fetched rows: the names and the topics
\* whose lower case form contains the normalized query.
SuggestionSet(fetched, nq) ==
    { r.name : r \in { x \in fetched : IsSubstr(nq, LowerStr(x.name)) } }
    \cup UNION { { TopicsOf(r)[k] : k \in { m \in 1..Len(TopicsOf(r)) :
                                              IsSubstr(nq, LowerStr(TopicsOf(r)[m])) } } :
                 r \in fetched }

\* list(a set): its elements once each, in an order the program does not fix
ListsOf(S) ==
    { f \in [1..Cardinality(S) -> S] :
        \A i \in 1..Cardinality(S), j \in 1..Cardinality(S) :
            i # j => f[i] # f[j] }

\* AdvancedSearchEngine.get_suggestions: the lists it may return.
get_suggestions(rs, query, limit) ==
    LET nq == normalize_query(query)
    IN  IF Len(nq) < MinSuggestQuery THEN { <<>> }
        ELSE UNION { { Prefix(l, limit) : l \in ListsOf(SuggestionSet(fetched, nq)) } :
                     fetched \in FetchedRows(rs, nq, limit) }

\* The view function suggestions(): the answers it may give.
api_suggestions(args, rs, fault) ==
    LET query == str_strip(args.q)
        lim == IF args.limit.given THEN ParseInt(args.limit.text)
               ELSE [ok |-> TRUE, value |-> DefaultSuggestLimit]
    IN  IF ~lim.ok THEN { [status |-> "unhandled", suggestions |-> <<>>] }
        ELSE IF fault = "store" /\ Len(normalize_query(query)) >= MinSuggestQuery
        THEN { [status |-> "failure", suggestions |-> <<>>] }
        ELSE { [status |-> "success", suggestions |-> l] :
                 l \in get_suggestions(rs, query, Min(lim.value, MaxSuggestLimit)) }

\* Records with topics and with upper case letters in names and topics.
TopicRecord(name, topics, t) ==
    [CorpusRecord(name, <<>>, 0, FALSE, t) EXCEPT !.topics = topics]

TopicCorpus(t) ==
    { TopicRecord(<<"J", "S", "O", "N">>,
                  << <<"T", "o", "o", "l", "s">>, <<"j", "s", "o", "n">> >>, t),
      TopicRecord(<<"s", "o", "s">>,
                  << <<"j", "s", "o", "n">>, <<"t", "o", "_", "s">> >>, t),
      TopicRecord(<<"t", "o", "n">>, <<>>, t) }

SuggestQueries ==
    { <<>>, <<"j">>, <<"j", "s">>, <<"J", "S", "O", "N", "!">>, <<"t", "o">>,
      <<"o", "n">>, <<"s", "_">>, <<" ", "s", "o", " ">> }

SuggestLimitArgs ==
    { NotGiven, Given(<<"-", "1">>), Given(<<"0">>), Given(<<"1">>),
      Given(<<"2">>), Given(<<"x">>) }

SuggestRequests == [q : SuggestQueries, limit : SuggestLimitArgs]

\* build_index over a listing of one record of the collection with topics.
IndexTopicRecord ==
    /\ pc = "idle"
    /\ resp = NoResp
    /\ NewRowid(rows) <= MaxRowid
    /\ \E rc \in TopicCorpus(now) :
          \E w \in { save_to_database(rows, fts, rc) } :
             /\ rows' = w.rows
             /\ fts' = w.fts
             /\ dbRows' = w.rows
             /\ dbFts' = w.fts
             /\ upserted' = upserted \cup {rc.full_name}
             /\ op' = [NoOp EXCEPT !.name = "index"]
    /\ UNCHANGED <<cache, now, pc, run, resp>>

\* GET /api/suggestions: the view function runs against the committed
\* database.
ServeSuggestions ==
    /\ resp = NoResp
    /\ \E args \in SuggestRequests, fault \in { "none", "store" } :
          \E answer \in api_suggestions(args, dbRows, fault) :
             resp' = [kind |-> "suggestions", args |-> args, fault |-> fault,
                      status |-> answer.status,
                      suggestions |-> answer.suggestions]
    /\ UNCHANGED <<rows, fts, dbRows, dbFts, cache, now, pc, run, upserted, op>>

NextSuggest == IndexTopicRecord \/ ServeSuggestions \/ Reply

SpecSuggest == Init /\ [][NextSuggest]_vars

----------------------------------------------------------------------------
(* Properties of the suggestions, checked under SpecSuggest *)

Suggested == resp # NoResp /\ resp.status = "success"

\* The limit the view function hands to get_suggestions.
SuggestLimit ==
    Min(IF resp.args.limit.given THEN ParseInt(resp.args.limit.text).value
        ELSE DefaultSuggestLimit, MaxSuggestLimit)

\* The names and topics held by the store.
StoredStrings ==
    { r.name : r \in dbRows }
    \cup UNION { { TopicsOf(r)[k] : k \in 1..Len(TopicsOf(r)) } : r \in dbRows }

\* C23: every suggestion is a name or a topic of the store whose lower case
\* form contains the normalized partial query, no string is returned twice,
\* and there are at most `limit` of them (limit of zero or more).
C23_Suggestions ==
    (Suggested /\ SuggestLimit >= 0) =>
        /\ Len(resp.suggestions) <= SuggestLimit
        /\ \A i \in 1..Len(resp.suggestions) :
              /\ resp.suggestions[i] \in StoredStrings
              /\ IsSubstr(normalize_query(resp.args.q),
                          LowerStr(resp.suggestions[i]))
              /\ \A j \in 1..Len(resp.suggestions) :
                    i # j => resp.suggestions[i] # resp.suggestions[j]

\* A query with upper case letters and punctuation answered with a name in
\* upper case and a topic that two rows carry, while another row was fetched
\* for its topics alone.
C23_Witness ==
    /\ Suggested
    /\ resp.args.q = <<"J", "S", "O", "N", "!">>
    /\ Len(resp.suggestions) = 2
    /\ \E i \in 1..2 : resp.suggestions[i] = <<"J", "S", "O", "N">>
    /\ \E i \in 1..2 : resp.suggestions[i] = <<"j", "s", "o", "n">>
    /\ Cardinality({ r \in dbRows :
                       \E k \in 1..Len(TopicsOf(r)) :
                          TopicsOf(r)[k] = <<"j", "s", "o", "n">> }) = 2
    /\ \E r \in dbRows : r.name = <<"s", "o", "s">>

----------------------------------------------------------------------------
(* Snippets: searches over records with long descriptions *)

\* n characters that belong to no word
Filler(n) == [i \in 1..n |-> "."]

\* text with word written over it from offset off (counted from 0) on
Place(text, off, word) ==
    [i \in 1..Len(text) |->
        IF off < i /\ i <= off + Len(word) THEN word[i - off] ELSE text[i]]

\* Descriptions of n characters holding "yaml" at offset a and "json" at
\* offset b: shorter and longer than a snippet, the words in the same or in
\* different windows.
LongTexts ==
    { Place(Place(Filler(n), a, <<"y", "a", "m", "l">>), b, <<"j", "s", "o", "n">>) :
        n \in { 120, 200, 204, 270, 320 }, a \in { 0, 10, 60 },
        b \in { 20, 100, 196, 264 } }

\* The texts long enough to hold both words.
LongDescriptions == { t \in LongTexts : IsSubstr(<<"j", "s", "o", "n">>, t) }

SnippetQueries ==
    { <<"j", "s", "o", "n">>, <<"y", "a", "m", "l">>,
      <<"j", "s", "o", "n", " ", "y", "a", "m", "l">>,
      <<"j", "s", "o", "n", " ", "j", "s", "o", "n", " ", "y", "a", "m", "l">>,
      <<"y", "a", "m", "l", " ", "y", "a", "m", "l", " ", "j", "s", "o", "n">> }

SnippetRequests == [q : SnippetQueries, limit : {NotGiven}, min_score : {NotGiven}]

\* build_index over a listing of one record with a long description, into an
\* empty database.
IndexDocument ==
    /\ pc = "idle"
    /\ resp = NoResp
    /\ rows = {}
    /\ \E text \in LongDescriptions :
          \E w \in { save_to_database(rows, fts,
                        CorpusRecord(<<"d", "o", "c">>, text, 0, FALSE, now)) } :
             /\ rows' = w.rows
             /\ fts' = w.fts
             /\ dbRows' = w.rows
             /\ dbFts' = w.fts
    /\ upserted' = upserted \cup { <<"o", "/", "d", "o", "c">> }
    /\ op' = [NoOp EXCEPT !.name = "index"]
    /\ UNCHANGED <<cache, now, pc, run, resp>>

\* GET /api/search with limit and min_score left to their defaults.
ServeSnippets ==
    /\ resp = NoResp
    /\ \E args \in SnippetRequests :
          resp' = [args |-> args, fault |-> "none"]
                     @@ api_search(args, OrderByStars(dbRows, "asc"), dbFts, "none")
    /\ UNCHANGED <<rows, fts, dbRows, dbFts, cache, now, pc, run, upserted, op>>

NextSnippet == IndexDocument \/ ServeSnippets \/ Reply

SpecSnippet == Init /\ [][NextSnippet]_vars

----------------------------------------------------------------------------
(* Properties of the search engine, checked under SpecSearch *)

Served == resp # NoResp

Succeeded == Served /\ resp.status = "success"

\* The limit and min_score the view function hands to the engine.
LimitOf(args) ==
    IF args.limit.given THEN ParseInt(args.limit.text)
    ELSE [ok |-> TRUE, value |-> DefaultLimit]

MinScoreOf(args) ==
    IF args.min_score.given THEN ParseFloat(args.min_score.text)
    ELSE [ok |-> TRUE, value |-> DefaultMinScore]

Parsable(args) == LimitOf(args).ok /\ MinScoreOf(args).ok

EngineLimit(args) == Min(LimitOf(args).value, MaxLimit)

KeywordsOf(args) == extract_keywords(normalize_query(str_strip(args.q)))

\* The request is a relevance search / a browse request that reached the engine.
Relevance == Served /\ Parsable(resp.args) /\ KeywordsOf(resp.args) # <<>>

Browse == Served /\ Parsable(resp.args) /\ KeywordsOf(resp.args) = <<>>

ResultNames == [i \in 1..Len(resp.results) |-> resp.results[i].name]

StoredNames == { r.name : r \in dbRows }

\* The score the engine gives a stored row for the query of the request.
ScoreOf(r) == total_score(r, KeywordsOf(resp.args))

\* C12: with exactly fastjson (1000 stars) and slowjson (1 star, archived) in
\* the store, the query "json" returns both with fastjson first for every
\* limit of 2 or more, and fastjson alone for limit 1.
C12_EndToEndRanking ==
    (/\ Served
     /\ Parsable(resp.args)
     /\ resp.fault = "none"
     /\ resp.args.q = <<"j", "s", "o", "n">>
     /\ StoredNames = { <<"f", "a", "s", "t", "j", "s", "o", "n">>, <<"s", "l", "o", "w", "j", "s", "o", "n">> }
     /\ EngineLimit(resp.args) >= 1) =>
        /\ resp.status = "success"
        /\ EngineLimit(resp.args) >= 2 => ResultNames = << <<"f", "a", "s", "t", "j", "s", "o", "n">>, <<"s", "l", "o", "w", "j", "s", "o", "n">> >>
        /\ EngineLimit(resp.args) = 1 => ResultNames = << <<"f", "a", "s", "t", "j", "s", "o", "n">> >>

\* Every query word that matches a word of the description matches it as a
\* substring, at least one does, and no other field matches.
OnlySubstringInDescription(r, query_words) ==
    /\ \A f \in { "name", "full_name", "readme_content", "topics" } :
           field_similarity(r, f, query_words) = 0
    /\ \A k \in 1..Len(query_words) :
           best_match_score(query_words[k], extract_keywords(r.description))
               \in { 0, 8 * (Million \div 10) }
    /\ field_similarity(r, "description", query_words) > 0

OtherwiseIdentical(a, b) ==
    /\ a.stars = b.stars
    /\ a.archived = b.archived
    /\ a.readme_content = b.readme_content
    /\ a.topics = b.topics

\* C13: for the query of any relevance search, a stored record whose name
\* equals one of the keywords scores at least as high as an otherwise
\* identical record that has only substring matches in its description.
C13_ScoringMonotonicity ==
    Relevance =>
        \A a \in dbRows, b \in dbRows :
            (/\ \E k \in 1..Len(KeywordsOf(resp.args)) :
                    a.name = KeywordsOf(resp.args)[k]
             /\ OnlySubstringInDescription(b, KeywordsOf(resp.args))
             /\ OtherwiseIdentical(a, b)) =>
                ScoreOf(a) >= ScoreOf(b)

\* C14: a browse request (empty, blank or keyword-free query) with a limit
\* of zero or more returns the min(limit, store size) records with the most
\* stars, in descending order of stars, each with score 0, no matched fields
\* and no snippets.
C14_BrowseMode ==
    (Browse /\ resp.fault # "store" /\ EngineLimit(resp.args) >= 0) =>
        /\ resp.status = "success"
        /\ Len(resp.results) = Min(EngineLimit(resp.args), Cardinality(dbRows))
        /\ \A i \in 1..Len(resp.results) :
              /\ resp.results[i].search_score = 0
              /\ resp.results[i].matched_fields = <<>>
              /\ resp.results[i].snippets = <<>>
              /\ \E r \in dbRows : r.full_name = resp.results[i].full_name
              /\ \A j \in 1..Len(resp.results) :
                    i < j => /\ resp.results[i].stars >= resp.results[j].stars
                             /\ resp.results[i].full_name # resp.results[j].full_name
              /\ \A r \in dbRows :
                    r.stars > resp.results[i].stars =>
                        \E j \in 1..Len(resp.results) :
                            resp.results[j].full_name = r.full_name

C14_Witness ==
    /\ Browse
    /\ resp.args.q = <<"T", "h", "e", "!">>
    /\ EngineLimit(resp.args) = 2
    /\ Cardinality(dbRows) = 3
    /\ \E r \in dbRows : r.description # <<>>
    /\ Len(resp.results) = 2

\* C15: every result of a relevance search has a score of at least min_score,
\* the results are in non-increasing order of score, and there are at most
\* `limit` of them (limit of zero or more).
C15_FilteredSortedTruncated ==
    (Relevance /\ resp.status = "success" /\ EngineLimit(resp.args) >= 0) =>
        /\ Len(resp.results) <= EngineLimit(resp.args)
        /\ \A i \in 1..Len(resp.results) :
              /\ resp.results[i].search_score >= MinScoreOf(resp.args).value
              /\ \A j \in 1..Len(resp.results) :
                    i < j => resp.results[i].search_score
                                >= resp.results[j].search_score

C15_Witness ==
    /\ Relevance
    /\ resp.status = "success"
    /\ Len(resp.results) = 2
    /\ EngineLimit(resp.args) = 2
    /\ resp.results[1].search_score > resp.results[2].search_score
    /\ \E r \in dbRows : /\ ScoreOf(r) > 0
                         /\ ScoreOf(r) < MinScoreOf(resp.args).value

\* C16: whatever the limit parameter, a response holds at most 100 results,
\* and at most 50 when the parameter is absent.
C16_TransportLimitCap ==
    Succeeded =>
        /\ Len(resp.results) <= MaxLimit
        /\ ~resp.args.limit.given => Len(resp.results) <= DefaultLimit

\* The stored rows whose score for the query reaches min_score.
FuzzyQualifying ==
    { r \in dbRows : ScoreOf(r) >= MinScoreOf(resp.args).value }

\* C17: when the full-text query raises, the search answers with the fuzzy
\* result alone: the min(limit, n) best of the n stored records whose score
\* reaches min_score, in non-increasing order of score, for limit >= 1.
C17_QueryFailureFallback ==
    (Relevance /\ resp.fault = "fts" /\ EngineLimit(resp.args) >= 1) =>
        /\ resp.status = "success"
        /\ Len(resp.results)
             = Min(EngineLimit(resp.args), Cardinality(FuzzyQualifying))
        /\ \A i \in 1..Len(resp.results) :
              /\ \E r \in FuzzyQualifying :
                    /\ r.full_name = resp.results[i].full_name
                    /\ ScoreOf(r) = resp.results[i].search_score
              /\ \A j \in 1..Len(resp.results) :
                    i < j => /\ resp.results[i].search_score
                                   >= resp.results[j].search_score
                             /\ resp.results[i].full_name # resp.results[j].full_name
              /\ \A r \in FuzzyQualifying :
                    ScoreOf(r) > resp.results[i].search_score =>
                        \E j \in 1..Len(resp.results) :
                            resp.results[j].full_name = r.full_name

\* The stored row a result was made from.
RowOfResult(x) == CHOOSE r \in dbRows : r.full_name = x.full_name

\* C18: in a relevance search the score of a record is the sum of its field
\* scores and its boost when it is not archived, and 0.7 times that sum when
\* it is: the archived twin of a result scores 0.7 times its unarchived twin.
C18_ArchivalPenalty ==
    (Relevance /\ resp.status = "success") =>
        \A i \in 1..Len(resp.results) :
            LET r == RowOfResult(resp.results[i])
                plain == score_repository([r EXCEPT !.archived = FALSE],
                                          resp.args.q).score
                archived == score_repository([r EXCEPT !.archived = TRUE],
                                             resp.args.q).score
            IN  /\ plain % 10 = 0
                /\ archived = (plain \div 10) * 7
                /\ plain = relevance(r, KeywordsOf(resp.args))
                             + popularity_boost(r.stars)
                /\ resp.results[i].search_score
                     = IF r.archived THEN archived ELSE plain

C18_Witness ==
    /\ Relevance
    /\ resp.status = "success"
    /\ \E i \in 1..Len(resp.results) :
          /\ resp.results[i].archived
          /\ resp.results[i].stars > 0
          /\ resp.results[i].matched_fields # <<>>

\* C19: the boost of every stored record lies between 0 and 0.5 and does not
\* decrease with the stars.
C19_PopularityBoostBounded ==
    \A r \in dbRows :
        /\ r.stars >= 0
        /\ popularity_boost(r.stars) >= 0
        /\ popularity_boost(r.stars) <= One \div 2
        /\ \A r2 \in dbRows :
              r.stars <= r2.stars =>
                  popularity_boost(r.stars) <= popularity_boost(r2.stars)

C19_Witness ==
    /\ Relevance
    /\ resp.status = "success"
    /\ \E i \in 1..Len(resp.results) :
          /\ resp.results[i].stars > 100000
          /\ resp.results[i].search_score = One \div 2
    /\ \E i \in 1..Len(resp.results) :
          /\ resp.results[i].stars < 100000
          /\ resp.results[i].search_score > 0
          /\ resp.results[i].search_score < One \div 2

\* C20: every error raised while a search request is served (an unparsable
\* limit or min_score, a store error) ends in the structured failure answer,
\* without results; no exception leaves the view function.
C20_StructuredFailure ==
    Served =>
        /\ resp.status # "unhandled"
        /\ ~Parsable(resp.args) => resp.status = "failure"
        /\ resp.status = "failure" => resp.results = <<>>

\* The stored rows the full-text query returns and whose score reaches
\* min_score.
ExactRows ==
    { r \in FuzzyQualifying :
        \E k \in 1..Len(KeywordsOf(resp.args)) :
            r.rowid \in fts_match(dbFts, KeywordsOf(resp.args)[k]) }

\* C21: when the tables of the store do not exist, so that every query of
\* the request raises "no such table", the search returns the empty result,
\* for a browse request and for a keyword request alike.
C21_IndexAbsenceNotACrash ==
    (Served /\ Parsable(resp.args) /\ resp.fault = "store" /\ dbRows = {}) =>
        /\ resp.status = "success"
        /\ resp.results = <<>>

\* C25: the fuzzy scan runs exactly when fewer than limit/2 exact results
\* passed min_score (with limit 1 and no exact result it runs): then every
\* stored record whose score reaches min_score competes for the `limit`
\* places, otherwise only the exact results do; no full_name is returned
\* twice.
C25_RetrievalFusion ==
    (Relevance /\ resp.fault = "none" /\ EngineLimit(resp.args) >= 1) =>
        /\ resp.status = "success"
        /\ \A i \in 1..Len(resp.results), j \in 1..Len(resp.results) :
              i # j => resp.results[i].full_name # resp.results[j].full_name
        /\ IF 2 * Cardinality(ExactRows) < EngineLimit(resp.args)
           THEN Len(resp.results)
                  = Min(EngineLimit(resp.args), Cardinality(FuzzyQualifying))
           ELSE /\ Len(resp.results)
                     = Min(EngineLimit(resp.args), Cardinality(ExactRows))
                /\ \A i \in 1..Len(resp.results) :
                      \E r \in ExactRows : r.full_name = resp.results[i].full_name

\* C29: with the default min_score every record returned for a query with
\* keywords has at least one matched field; the stars alone bring no record
\* into the result.
C29_ReturnedResultsMatch ==
    (Relevance /\ resp.status = "success" /\ ~resp.args.min_score.given) =>
        \A i \in 1..Len(resp.results) : resp.results[i].matched_fields # <<>>

\* The keyword equals a word of the field / is in a substring relation with
\* one.
ExactIn(query_word, text_words) ==
    \E j \in 1..Len(text_words) : text_words[j] = query_word

SubstrIn(query_word, text_words) ==
    \E j \in 1..Len(text_words) :
        \/ IsSubstr(query_word, text_words[j])
        \/ IsSubstr(text_words[j], query_word)

\* The edit similarities of the keyword to the words of the field.
RatiosOf(query_word, text_words) ==
    { ratio(query_word, text_words[j]) : j \in 1..Len(text_words) }

\* The words of a field of a stored row.
WordsOf(r, f) == extract_keywords(field_value(r, f))

\* C27: for the keywords of a relevance search and every field of every
\* stored row the similarity lies in [0,1] and is the sum of the best matches
\* of the keywords divided by their number, where a best match is 1.0 for an
\* equal word, else 0.8 for a substring relation (unless an edit similarity
\* is higher), else the highest edit similarity if it reaches 0.6 and else
\* 0; the matched_fields of a result are the fields with similarity > 0.
\* (The similarities depend on the keywords and the rows alone: they are
\* examined on the requests that leave limit and min_score to their defaults,
\* the matched_fields on every request.)
C27_FieldSimilarityRange ==
    Relevance =>
        /\ (~resp.args.limit.given /\ ~resp.args.min_score.given) =>
           \A kw \in { KeywordsOf(resp.args) } :
           \A r \in dbRows :
              \A n \in 1..Len(ScoredFields) :
                 \A tw \in { WordsOf(r, ScoredFields[n]) } :
                 \A sim \in { field_similarity(r, ScoredFields[n], kw) } :
                     /\ sim >= 0
                     /\ sim <= Million
                     /\ tw = <<>> => sim = 0
                     /\ tw # <<>> =>
                        \A total \in { SumBest(kw, tw) } :
                           /\ Len(kw) * sim <= total
                           /\ total < Len(kw) * (sim + 1)
                           /\ \A k \in 1..Len(kw) :
                              \A best \in { best_match_score(kw[k], tw) } :
                              \A ratios \in { RatiosOf(kw[k], tw) } :
                              \A exact \in { ExactIn(kw[k], tw) } :
                              \A substr \in { SubstrIn(kw[k], tw) } :
                                 /\ best = Million <=> exact
                                 /\ (substr /\ ~exact) =>
                                      /\ best >= 8 * (Million \div 10)
                                      /\ best \in { 8 * (Million \div 10) }
                                                     \cup ratios
                                 /\ ~substr =>
                                      /\ best \in { 0 } \cup ratios
                                      /\ best = 0 \/ best >= 6 * (Million \div 10)
                                      /\ \A x \in ratios :
                                            x >= 6 * (Million \div 10)
                                                => best >= x
        /\ resp.status = "success" =>
              \A kw \in { KeywordsOf(resp.args) } :
              \A i \in 1..Len(resp.results) :
                 \A r \in { RowOfResult(resp.results[i]) } :
                 \A n \in 1..Len(ScoredFields) :
                    (\E m \in 1..Len(resp.results[i].matched_fields) :
                        resp.results[i].matched_fields[m] = ScoredFields[n])
                    <=> field_similarity(r, ScoredFields[n], kw) > 0

\* A search with several keywords of which, for the name of a returned
\* record, one is equal to a word and one is no match although it has an
\* edit similarity above 0 (below 0.6).
C27_Witness ==
    /\ Relevance
    /\ resp.status = "success"
    /\ \E i \in 1..Len(resp.results) :
          LET kw == KeywordsOf(resp.args)
              tw == WordsOf(RowOfResult(resp.results[i]), "name")
          IN  /\ Len(kw) > 1
              /\ SumBest(kw, tw) > 0
              /\ SumBest(kw, tw) < Len(kw) * Million
              /\ \E k \in 1..Len(kw) : ExactIn(kw[k], tw)
              /\ \E k \in 1..Len(kw) :
                    /\ best_match_score(kw[k], tw) = 0
                    /\ \E x \in RatiosOf(kw[k], tw) : x > 0

----------------------------------------------------------------------------
(* Property of the snippets, checked under SpecSnippet *)

\* The start offsets of the windows over a text.
WindowStarts(text) == { i \in 0..(Len(text) - 1) : i % SnippetStep = 0 }

\* The number of distinct keywords the window starting at offset i contains.
DistinctIn(text, query_words, i) ==
    Cardinality({ query_words[k] : k \in { m \in 1..Len(query_words) :
                     IsSubstr(query_words[m],
                              Slice(LowerStr(text), i, SnippetLength)) } })

\* The earliest of the windows with the most distinct keywords.
BestWindow(text, query_words) ==
    CHOOSE i \in WindowStarts(text) :
        \A j \in WindowStarts(text) :
            \/ DistinctIn(text, query_words, j) < DistinctIn(text, query_words, i)
            \/ /\ DistinctIn(text, query_words, j) = DistinctIn(text, query_words, i)
               /\ i <= j

\* C28: the snippet of a matched description is the window of 200 characters,
\* among those starting at the multiples of 50, that contains the most
\* distinct keywords (the earliest of them), with an ellipsis in front
\* exactly when it does not start at the beginning of the text and one
\* behind exactly when it does not reach the end.
C28_SnippetExtraction ==
    (Served /\ resp.status = "success") =>
        \A i \in 1..Len(resp.results) :
            "description" \in DOMAIN resp.results[i].snippets =>
                \A text \in { resp.results[i].description } :
                \A best \in { BestWindow(text, KeywordsOf(resp.args)) } :
                    resp.results[i].snippets["description"]
                      = (IF best > 0 THEN <<".", ".", ".">> ELSE <<>>)
                          \o Slice(text, best, SnippetLength)
                          \o (IF best + SnippetLength < Len(text)
                              THEN <<".", ".", ".">> ELSE <<>>)

----------------------------------------------------------------------------
(* Further properties of the content store, checked under SpecStore *)

\* C30: an upsert of a record that differs from the stored row of its
\* full_name in description, readme_content or updated_at has a fingerprint
\* different from the stored one and is Written.
C30_ChangeDetectionComplete ==
    [][UpsertStep =>
        \A r \in SelectByFullName(rows, op'.rc.full_name) :
            ~ContentEqual(r, op'.rc) =>
                /\ get_content_hash(op'.rc) # r.content_hash
                /\ op'.result = "Written"]_vars

----------------------------------------------------------------------------
(* Further properties of indexing runs, checked under SpecIndex *)

\* The answer of the search engine to a browse request arriving in this
\* state: it opens its own connection and reads the committed database.
BrowseNow(tie) ==
    search(OrderByStars(dbRows, tie), dbFts, <<>>, DefaultLimit,
           DefaultMinScore, "none")

\* C24: once an upsert of a running pass has returned Written, a search
\* issued through the engine's own connection shows the record with its
\* current content, and a full-text query for any of its terms returns it.
C24_UpsertVisibleToSearch ==
    (LastItem /\ op.result = "Written" /\ pc = "running") =>
        /\ \A tie \in TieBreaks :
              \E i \in 1..Len(BrowseNow(tie).results) :
                  /\ BrowseNow(tie).results[i].repo.full_name = op.rc.full_name
                  /\ BrowseNow(tie).results[i].repo.content_hash
                       = get_content_hash(op.rc)
        /\ \A t \in RcTokens(op.rc) :
              \E r \in search_repositories(dbRows, dbFts, t) :
                  /\ r.full_name = op.rc.full_name
                  /\ r.content_hash = get_content_hash(op.rc)

\* C26: a cache hit issues no request; on a miss the candidates are requested
\* in their order, at most five of them, and the first one answered with a
\* file ends the loop: its cleaned text is written to the cache entry of the
\* record and returned.  Without such an answer all five are requested and
\* the text is empty.
C26_CandidateOrder ==
    (LastItem /\ op.item.raw.missing = "none"
              /\ op.item.lookup \in {"hit", "miss"}) =>
        /\ op.item.requests <= NumCandidates
        /\ op.item.lookup = "hit" => op.item.requests = 0
        /\ (op.item.lookup = "miss" /\ op.item.fileSeen) =>
              /\ op.item.got
              /\ op.item.text = op.item.cleaned
              /\ cache[op.item.raw.full_name].exists
              /\ cache[op.item.raw.full_name].text = op.item.cleaned
        /\ (op.item.lookup = "miss" /\ ~op.item.fileSeen) =>
              /\ op.item.requests = NumCandidates
              /\ op.item.text = <<>>

\* C22: an iteration over a complete archived record looks up no cache entry,
\* issues no request and leaves the cache as it is; the record it builds has
\* an empty readme_content and is handed to the store, which then holds a row
\* of that full_name with the fingerprint of the record.
C22_ArchivedSkipReadme ==
    [][(ItemStep /\ op'.item.raw.archived /\ op'.item.raw.missing = "none") =>
        /\ op'.item.lookup = "none"
        /\ op'.item.requests = 0
        /\ cache' = cache
        /\ op'.result \in {"Written", "Skipped"}
        /\ op'.rc.archived
        /\ op'.rc.readme_content = <<>>
        /\ \E r \in SelectByFullName(rows', op'.item.raw.full_name) :
              r.content_hash = get_content_hash(op'.rc)]_vars

\* An archived record with a cache entry holding text is written with an
\* empty readme_content.
C22_Witness ==
    /\ LastItem
    /\ op.item.raw.archived
    /\ op.item.cached.exists
    /\ op.item.cached.text # <<>>
    /\ op.result = "Written"
    /\ \E r \in SelectByFullName(rows, op.item.raw.full_name) :
          r.archived /\ r.readme_content = <<>>

====
